---------------------------- MODULE Spec2Model ----------------------------
(***************************************************************************)
(* A model of ecs::Manager / ecs::Entity (src/entitycs.h): the entity      *)
(* registry, its persistent and transient query lists, the dead-entity     *)
(* compaction, the tick orchestration with its user hooks, and the         *)
(* serial/parallel dispatch of forEachParallel.                            *)
(*                                                                         *)
(* Entities are named by their id (m_id).  A std::vector<shared_ptr<E>> is *)
(* a sequence of ids; C++ index i is TLA+ index i+1 (operator At).  A      *)
(* SystemKeyT bit mask is the set of the component indices whose bit is    *)
(* set: | is \cup, & is \cap, 0 is {}.                                     *)
(***************************************************************************)
EXTENDS Integers, Sequences, FiniteSets, TLC

\* ------------------------------------------------------------------ bounds
\* ids handed out by one manager in a run of the model (guards cap m_curID)
MaxEntities == 2
\* behaviour hooks attached to one entity
MaxScripts == 1
\* systems registered with addSystem
MaxSystems == 1
\* persistent queries declared with addQuery
MaxQueries == 1
\* transient query results cached within one tick
MaxTemp == 1
\* length of the input lists of the compaction specification
MaxLen == 4
\* entities the input lists of the compaction specification draw from
NumCompactEnts == 3

\* length of the list forEachParallel runs over, in the dispatch specification
MaxParLen == 13
\* m_nThreads, in the dispatch specification
MaxThreads == 3
\* addEntity calls the callbacks of one forEachParallel call make
MaxParCreates == 2

\* transient results cached within one tick, in the query specification
MaxCached == 2

\* The instantiation Manager<Position, Velocity>: component indices 0 and 1.
Components == {0, 1}
Masks == SUBSET Components

VARIABLES
    m_state,              \* States::Init / States::Running
    m_systems,            \* registered systems, in registration order
    m_queries,            \* persistent queries: <<[first |-> key, second |-> list]>>
    m_entities,           \* the master list
    m_freshEntities,      \* entities created and not yet finalized
    m_tempCachedQueries,  \* transient query results of this tick
    m_curID,              \* next id
    ents,                 \* id -> [alive, componentsAdded, flags, scripts]
    halted,               \* an assert has failed: the process is gone
    pc,                   \* where the tick-driving thread is
    loop,                 \* the running loops' indices and cached ends
    fe,                   \* the forEach / forEachParallel call in progress
    obs,                  \* what the hooks have observed (invocation counts)
    cv,                   \* the compaction specification's call record
    par                   \* forEachParallel's parallel section

vars == <<m_state, m_systems, m_queries, m_entities, m_freshEntities,
          m_tempCachedQueries, m_curID, ents, halted, pc, loop, fe, obs, cv, par>>

\* ----------------------------------------------------------------- vectors
At(v, i) == v[i + 1]
PopBack(v) == SubSeq(v, 1, Len(v) - 1)
PushBack(v, x) == Append(v, x)
SwapAt(v, i, j) == [v EXCEPT ![i + 1] = v[j + 1], ![j + 1] = v[i + 1]]
Elems(v) == {v[k] : k \in 1..Len(v)}
Occurrences(v, x) == Cardinality({k \in 1..Len(v) : v[k] = x})

\* ------------------------------------------------------------------ Entity
IsAlive(e) == ents[e].alive
HasScript(e) == ents[e].scripts # 0
GetComponentKeyFromEntity(e) == ents[e].flags
NewEntity == [alive |-> TRUE, componentsAdded |-> FALSE, flags |-> {}, scripts |-> 0]

\* (binaryKey & flags) == binaryKey
MatchesKey(key, e) == (key \cap ents[e].flags) = key

\* ------------------------------------------------------ removeDeadEntities
\* while (right > left) { if (v[right]->isAlive()) break; right--; v.pop_back(); }
RECURSIVE ShrinkRight(_, _, _)
ShrinkRight(v, left, right) ==
    IF right > left /\ ~IsAlive(At(v, right))
    THEN ShrinkRight(PopBack(v), left, right - 1)
    ELSE [v |-> v, right |-> right]

\* the while (left <= right) loop of removeDeadEntities(v)
RECURSIVE RemoveLoop1(_, _, _)
RemoveLoop1(v, left, right) ==
    IF ~(left <= right) THEN v
    ELSE IF ~IsAlive(At(v, left))
    THEN LET s == ShrinkRight(v, left, right)
             doSwap == s.right > left
             v2 == IF doSwap THEN SwapAt(s.v, left, s.right) ELSE s.v
             r2 == IF doSwap THEN s.right - 1 ELSE s.right
         IN  RemoveLoop1(PopBack(v2), left + 1, r2)
    ELSE RemoveLoop1(v, left + 1, right)

\* removeDeadEntities(v) with the outer loop written while (left < right)
RECURSIVE RemoveLoop1Strict(_, _, _)
RemoveLoop1Strict(v, left, right) ==
    IF ~(left < right) THEN v
    ELSE IF ~IsAlive(At(v, left))
    THEN LET s == ShrinkRight(v, left, right)
             doSwap == s.right > left
             v2 == IF doSwap THEN SwapAt(s.v, left, s.right) ELSE s.v
             r2 == IF doSwap THEN s.right - 1 ELSE s.right
         IN  RemoveLoop1Strict(PopBack(v2), left + 1, r2)
    ELSE RemoveLoop1Strict(v, left + 1, right)

RemoveDead1Mut(v) ==
    IF Len(v) = 0 THEN v ELSE RemoveLoop1Strict(v, 0, Len(v) - 1)

\* void removeDeadEntities(v)
RemoveDead1(v) ==
    IF Len(v) = 0 THEN v ELSE RemoveLoop1(v, 0, Len(v) - 1)

\* the while (left <= right) loop of removeDeadEntities(v, rflag, rscript)
RECURSIVE RemoveLoop3(_, _, _, _, _)
RemoveLoop3(v, left, right, rflag, rscript) ==
    IF ~(left <= right) THEN [v |-> v, rflag |-> rflag, rscript |-> rscript]
    ELSE IF ~IsAlive(At(v, left))
    THEN LET rf == rflag \cup ents[At(v, left)].flags
             rs == rscript \/ HasScript(At(v, left))
             s == ShrinkRight(v, left, right)
             doSwap == s.right > left
             v2 == IF doSwap THEN SwapAt(s.v, left, s.right) ELSE s.v
             r2 == IF doSwap THEN s.right - 1 ELSE s.right
         IN  RemoveLoop3(PopBack(v2), left + 1, r2, rf, rs)
    ELSE RemoveLoop3(v, left + 1, right, rflag, rscript)

\* the loop with v.pop_back() and right-- placed behind the if block, so that
\* they run for an alive v[left] too
RECURSIVE RemoveLoop3Pop(_, _, _, _, _)
RemoveLoop3Pop(v, left, right, rflag, rscript) ==
    IF ~(left <= right) THEN [v |-> v, rflag |-> rflag, rscript |-> rscript]
    ELSE IF ~IsAlive(At(v, left))
    THEN LET rf == rflag \cup ents[At(v, left)].flags
             rs == rscript \/ HasScript(At(v, left))
             s == ShrinkRight(v, left, right)
             doSwap == s.right > left
             v2 == IF doSwap THEN SwapAt(s.v, left, s.right) ELSE s.v
             r2 == IF doSwap THEN s.right - 1 ELSE s.right
         IN  RemoveLoop3Pop(PopBack(v2), left + 1, r2, rf, rs)
    ELSE RemoveLoop3Pop(PopBack(v), left + 1, right - 1, rflag, rscript)

RemoveDead3Mut(v, rflag0, rscript0) ==
    IF Len(v) = 0
    THEN [v |-> v, rflag |-> rflag0, rscript |-> rscript0, ret |-> FALSE]
    ELSE LET r == RemoveLoop3Pop(v, 0, Len(v) - 1, {}, FALSE)
         IN  [v |-> r.v, rflag |-> r.rflag, rscript |-> r.rscript,
              ret |-> (Len(v) # Len(r.v))]

\* bool removeDeadEntities(v, rflag, rscript); rflag0/rscript0 are the
\* caller's values, left alone when the list is empty
RemoveDead3(v, rflag0, rscript0) ==
    IF Len(v) = 0
    THEN [v |-> v, rflag |-> rflag0, rscript |-> rscript0, ret |-> FALSE]
    ELSE LET r == RemoveLoop3(v, 0, Len(v) - 1, {}, FALSE)
         IN  [v |-> r.v, rflag |-> r.rflag, rscript |-> r.rscript,
              ret |-> (Len(v) # Len(r.v))]

\* ------------------------------------------------------------ Manager state
Ids == 0..(m_curID - 1)
NoLoop == [i |-> 0, j |-> 0, end |-> 0]
NoFe == [on |-> FALSE, list |-> <<>>, i |-> 0, ret |-> "idle"]
NoCv == [phase |-> "none", overload |-> 0, in |-> <<>>, ret |-> FALSE,
         rflag |-> {}, rscript |-> FALSE]
\* m_nThreads, m_timeTillThreadStarts and the forEachParallel call in progress
NoPar == [phase |-> "none", m_nThreads |-> 1, m_timeTillThreadStarts |-> 0]
NoObs == [begun |-> [e \in {} |-> 0], ticked |-> [e \in {} |-> 0],
          tickedDead |-> FALSE, sysTicked |-> <<>>, initQ |-> <<>>,
          sysBegun |-> <<>>, deadAtStart |-> {}, pendingAtStart |-> {},
          ranTick |-> FALSE, scanned |-> <<>>]

\* Manager(): the lists are empty, m_curID = 0, m_state = States::Init
Init ==
    /\ m_state = "Init"
    /\ m_systems = <<>>
    /\ m_queries = <<>>
    /\ m_entities = <<>>
    /\ m_freshEntities = <<>>
    /\ m_tempCachedQueries = <<>>
    /\ m_curID = 0
    /\ ents = [e \in {} |-> NewEntity]
    /\ halted = "no"
    /\ pc = "idle"
    /\ loop = NoLoop
    /\ fe = NoFe
    /\ obs = NoObs
    /\ cv = NoCv
    /\ par = NoPar

\* User code runs on the tick-driving thread: between the manager's calls
\* (pc = "idle") and inside every hook and callback the manager invokes.
NotHalted == halted = "no"
Lists == <<m_systems, m_queries, m_entities, m_freshEntities, m_tempCachedQueries>>
\* A failed assert aborts the process: the manager's lists, state and entities
\* are as the rejected call found them; no thread of control and nothing it
\* observed is left.
Halt(call) ==
    /\ halted' = call
    /\ pc' = "halted"
    /\ loop' = NoLoop
    /\ fe' = NoFe
    /\ obs' = NoObs
    /\ UNCHANGED <<m_state, m_systems, m_queries, m_entities, m_freshEntities,
                   m_tempCachedQueries, m_curID, ents, cv, par>>

\* a begin hook of the fresh loop is running (or a forEach it started)
InBegin == pc = "begin" \/ (fe.on /\ fe.ret = "begin")

\* --------------------------------------------------------------- Entity API
\* a kill() that takes the entity out of the master list at once
KillMut(e) ==
    /\ NotHalted
    /\ ents' = [ents EXCEPT ![e].alive = FALSE]
    /\ m_entities' = SelectSeq(m_entities, LAMBDA x : x # e)
    /\ UNCHANGED <<m_state, m_systems, m_queries, m_freshEntities,
                   m_tempCachedQueries, m_curID, halted, pc, loop, fe, obs, cv, par>>

\* void kill()
Kill(e) ==
    /\ NotHalted
    /\ ents' = [ents EXCEPT ![e].alive = FALSE]
    /\ UNCHANGED <<m_state, m_systems, m_queries, m_entities, m_freshEntities,
                   m_tempCachedQueries, m_curID, halted, pc, loop, fe, obs, cv, par>>

\* addComponent<T>() without its assert
AddComponentMut(e, c) ==
    /\ NotHalted
    /\ ents' = [ents EXCEPT ![e].flags = @ \cup {c}]
    /\ UNCHANGED <<m_state, m_systems, m_queries, m_entities, m_freshEntities,
                   m_tempCachedQueries, m_curID, halted, pc, loop, fe, obs, cv, par>>

\* T& addComponent<T>(): assert(!m_componentsAdded); m_componentFlags |= 1 << slot
AddComponent(e, c) ==
    /\ NotHalted
    /\ IF ents[e].componentsAdded
       THEN Halt("addComponent")
       ELSE /\ ents' = [ents EXCEPT ![e].flags = @ \cup {c}]
            /\ UNCHANGED <<m_state, m_systems, m_queries, m_entities, m_freshEntities,
                           m_tempCachedQueries, m_curID, halted, pc, loop, fe, obs,
                           cv, par>>

\* void addScript(s): assert(!m_componentsAdded); m_scripts.push_back(s).
\* A begin hook of e that pushes onto e's own m_scripts while runStartupScript
\* iterates it is left out.
AddScript(e) ==
    /\ NotHalted
    /\ ~(InBegin /\ m_freshEntities[loop.i] = e)
    /\ IF ents[e].componentsAdded
       THEN Halt("addScript")
       ELSE /\ ents[e].scripts < MaxScripts
            /\ ents' = [ents EXCEPT ![e].scripts = @ + 1]
            /\ UNCHANGED <<m_state, m_systems, m_queries, m_entities, m_freshEntities,
                           m_tempCachedQueries, m_curID, halted, pc, loop, fe, obs,
                           cv, par>>

\* ----------------------------------------------------- Manager registration
\* addQuery<TReq...>(): assert(m_state == Init); a key already there is ignored
AddQuery(key) ==
    /\ NotHalted
    /\ pc \in {"idle", "initQueries"}
    /\ IF m_state # "Init"
       THEN Halt("addQuery")
       ELSE /\ \/ \E k \in 1..Len(m_queries) : m_queries[k].first = key
               \/ Len(m_queries) < MaxQueries
            /\ m_queries' =
                 IF \E k \in 1..Len(m_queries) : m_queries[k].first = key
                 THEN m_queries
                 ELSE PushBack(m_queries, [first |-> key, second |-> <<>>])
            /\ UNCHANGED <<m_state, m_systems, m_entities, m_freshEntities,
                           m_tempCachedQueries, m_curID, ents, halted, pc, loop, fe,
                           obs, cv, par>>

\* addSystem(s): assert(m_state == Init); m_systems.push_back(s).  Systems are
\* registered by the application, not from inside a hook.
AddSystem ==
    /\ NotHalted
    /\ pc = "idle"
    /\ IF m_state # "Init"
       THEN Halt("addSystem")
       ELSE /\ Len(m_systems) < MaxSystems
            /\ m_systems' = PushBack(m_systems, Len(m_systems) + 1)
            /\ obs' = [obs EXCEPT !.initQ = Append(@, 0), !.sysBegun = Append(@, 0)]
            /\ UNCHANGED <<m_state, m_queries, m_entities, m_freshEntities,
                           m_tempCachedQueries, m_curID, ents, halted, pc, loop, fe,
                           cv, par>>

\* The id assignment and the push of addEntity's critical section
\* (lines 294-299): e->m_id = m_curID++; m_freshEntities.push_back(e)
FreshAfterAdd == PushBack(m_freshEntities, m_curID)

\* addEntity() without its assert
AddEntityMut ==
    /\ NotHalted
    /\ m_curID < MaxEntities
    /\ ents' = [e \in 0..m_curID |-> IF e = m_curID THEN NewEntity ELSE ents[e]]
    /\ obs' = [obs EXCEPT
                !.begun = [e \in 0..m_curID |-> IF e = m_curID THEN 0 ELSE @[e]],
                !.ticked = [e \in 0..m_curID |-> IF e = m_curID THEN 0 ELSE @[e]]]
    /\ m_curID' = m_curID + 1
    /\ m_freshEntities' = FreshAfterAdd
    /\ UNCHANGED <<m_state, m_systems, m_queries, m_entities,
                   m_tempCachedQueries, halted, pc, loop, fe, cv, par>>

\* addEntity(): assert(m_state == Running).  The new entity has no script, so
\* the if (e->hasScript()) of line 300 never runs a hook here.
AddEntity ==
    /\ NotHalted
    /\ IF m_state # "Running"
       THEN Halt("addEntity")
       ELSE /\ m_curID < MaxEntities
            /\ ents' = [e \in 0..m_curID |-> IF e = m_curID THEN NewEntity ELSE ents[e]]
            /\ obs' = [obs EXCEPT
                        !.begun = [e \in 0..m_curID |-> IF e = m_curID THEN 0 ELSE @[e]],
                        !.ticked = [e \in 0..m_curID |-> IF e = m_curID THEN 0 ELSE @[e]]]
            /\ m_curID' = m_curID + 1
            /\ m_freshEntities' = FreshAfterAdd
            /\ UNCHANGED <<m_state, m_systems, m_queries, m_entities,
                           m_tempCachedQueries, halted, pc, loop, fe, cv, par>>

\* ------------------------------------------------------------- getEntsWith
\* a scan that also walks the pending entities
ScanMasterMut(key) ==
    SelectSeq(m_entities \o m_freshEntities, LAMBDA e : MatchesKey(key, e))

\* the scan of lines 318-324: every master-list entity whose flags hold the key
ScanMaster(key) == SelectSeq(m_entities, LAMBDA e : MatchesKey(key, e))

HasQuery(key) == \E k \in 1..Len(m_queries) : m_queries[k].first = key
QueryList(key) ==
    m_queries[CHOOSE k \in 1..Len(m_queries) : m_queries[k].first = key].second

\* getEntsWith<TReq...>() past its assert: the list it returns and the
\* transient cache it leaves
EntsWith(key) ==
    IF HasQuery(key)
    THEN [list |-> QueryList(key), temp |-> m_tempCachedQueries]
    ELSE [list |-> ScanMaster(key),
          temp |-> PushBack(m_tempCachedQueries, ScanMaster(key))]

\* the transient cache has room for the result of a scan for key
CanQuery(key) == HasQuery(key) \/ Len(m_tempCachedQueries) < MaxTemp

\* what is observed of a request: the mask every transient entry was scanned
\* for, in the order of the entries
ObsScan(key) ==
    [obs EXCEPT !.scanned = IF HasQuery(key) THEN @ ELSE Append(@, key)]

GetEntsWith(key) ==
    /\ NotHalted
    /\ IF m_state # "Running"
       THEN Halt("getEntsWith")
       ELSE /\ m_tempCachedQueries' = EntsWith(key).temp
            /\ obs' = ObsScan(key)
            /\ UNCHANGED <<m_state, m_systems, m_queries, m_entities, m_freshEntities,
                           m_curID, ents, halted, pc, loop, fe, cv, par>>

\* ------------------------------------------------------------------ forEach
\* forEach<TReq...>(func): for (auto& e : getEntsWith<TReq...>()) func(*e).
\* pc = "forEachCb" while func runs on fe.list[fe.i]; a callback does not
\* start another forEach.
ForEach(key) ==
    /\ NotHalted
    /\ ~fe.on
    /\ IF m_state # "Running"
       THEN Halt("forEach")
       ELSE /\ m_tempCachedQueries' = EntsWith(key).temp
            /\ obs' = ObsScan(key)
            /\ IF Len(EntsWith(key).list) = 0
               THEN UNCHANGED <<pc, fe>>
               ELSE /\ fe' = [on |-> TRUE, list |-> EntsWith(key).list, i |-> 1,
                              ret |-> pc]
                    /\ pc' = "forEachCb"
            /\ UNCHANGED <<m_state, m_systems, m_queries, m_entities, m_freshEntities,
                           m_curID, ents, halted, loop, cv, par>>

\* forEachParallel<TReq...>(func) on a list of at most m_nThreads * 4 entities
\* (line 401 false): func runs on every element on the calling thread (lines
\* 449-450).  Longer lists are the subject of SpecPar.
ForEachParallel(key) ==
    /\ NotHalted
    /\ ~fe.on
    /\ IF m_state # "Running"
       THEN Halt("forEachParallel")
       ELSE /\ Len(EntsWith(key).list) <= par.m_nThreads * 4
            /\ m_tempCachedQueries' = EntsWith(key).temp
            /\ obs' = ObsScan(key)
            /\ IF Len(EntsWith(key).list) = 0
               THEN UNCHANGED <<pc, fe>>
               ELSE /\ fe' = [on |-> TRUE, list |-> EntsWith(key).list, i |-> 1,
                              ret |-> pc]
                    /\ pc' = "forEachCb"
            /\ UNCHANGED <<m_state, m_systems, m_queries, m_entities, m_freshEntities,
                           m_curID, ents, halted, loop, cv, par>>

\* func returns: the next element, or forEach returns to its caller
ForEachReturn ==
    /\ NotHalted
    /\ pc = "forEachCb"
    /\ IF fe.i < Len(fe.list)
       THEN fe' = [fe EXCEPT !.i = @ + 1] /\ pc' = pc
       ELSE fe' = NoFe /\ pc' = fe.ret
    /\ UNCHANGED <<m_state, m_systems, m_queries, m_entities, m_freshEntities,
                   m_tempCachedQueries, m_curID, ents, halted, loop, obs, cv, par>>

\* -------------------------------------------------------------------- start
\* start() with the state flipped before the initQueries hooks run
StartMut ==
    /\ NotHalted
    /\ pc = "idle"
    /\ IF m_state # "Init"
       THEN Halt("start")
       ELSE /\ m_state' = "Running"
            /\ IF Len(m_systems) = 0
               THEN UNCHANGED <<pc, loop, obs>>
               ELSE /\ pc' = "initQueries"
                    /\ loop' = [NoLoop EXCEPT !.i = 1]
                    /\ obs' = [obs EXCEPT !.initQ[1] = @ + 1]
            /\ UNCHANGED <<m_systems, m_queries, m_entities, m_freshEntities,
                           m_tempCachedQueries, m_curID, ents, halted, fe, cv, par>>

\* start(): assert(m_state == Init); initQueries of every system; m_state =
\* Running; begin of every system.  pc = "initQueries" / "sysBegin" while the
\* hook of system loop.i runs.
Start ==
    /\ NotHalted
    /\ pc = "idle"
    /\ IF m_state # "Init"
       THEN Halt("start")
       ELSE /\ IF Len(m_systems) = 0
               THEN m_state' = "Running" /\ UNCHANGED <<pc, loop, obs>>
               ELSE /\ pc' = "initQueries"
                    /\ loop' = [NoLoop EXCEPT !.i = 1]
                    /\ obs' = [obs EXCEPT !.initQ[1] = @ + 1]
                    /\ UNCHANGED m_state
            /\ UNCHANGED <<m_systems, m_queries, m_entities, m_freshEntities,
                           m_tempCachedQueries, m_curID, ents, halted, fe, cv, par>>

InitQueriesReturn ==
    /\ NotHalted
    /\ pc = "initQueries"
    /\ IF loop.i < Len(m_systems)
       THEN /\ loop' = [loop EXCEPT !.i = @ + 1]
            /\ obs' = [obs EXCEPT !.initQ[loop.i + 1] = @ + 1]
            /\ UNCHANGED <<pc, m_state>>
       ELSE /\ m_state' = "Running"
            /\ pc' = "sysBegin"
            /\ loop' = [NoLoop EXCEPT !.i = 1]
            /\ obs' = [obs EXCEPT !.sysBegun[1] = @ + 1]
    /\ UNCHANGED <<m_systems, m_queries, m_entities, m_freshEntities,
                   m_tempCachedQueries, m_curID, ents, halted, fe, cv, par>>

SysBeginReturn ==
    /\ NotHalted
    /\ pc = "sysBegin"
    /\ IF loop.i < Len(m_systems)
       THEN /\ loop' = [loop EXCEPT !.i = @ + 1]
            /\ obs' = [obs EXCEPT !.sysBegun[loop.i + 1] = @ + 1]
            /\ pc' = pc
       ELSE /\ pc' = "idle"
            /\ loop' = NoLoop
            /\ obs' = obs
    /\ UNCHANGED <<m_state, m_systems, m_queries, m_entities, m_freshEntities,
                   m_tempCachedQueries, m_curID, ents, halted, fe, cv, par>>

\* --------------------------------------------------------------------- tick
\* lines 338-349: compact the master list, then every query whose key shares
\* a bit with the removed components
CompactQueries(r) ==
    [k \in 1..Len(m_queries) |->
        IF r.ret /\ (m_queries[k].first \cap r.rflag) # {}
        THEN [m_queries[k] EXCEPT !.second = RemoveDead1(@)]
        ELSE m_queries[k]]

\* lines 361-369: m_componentsAdded = true, push onto the master list and onto
\* every query whose key the entity's flags hold
Promote(st, e) ==
    [added |-> st.added \cup {e},
     ent |-> PushBack(st.ent, e),
     q |-> [k \in 1..Len(st.q) |->
              IF (st.q[k].first \cap GetComponentKeyFromEntity(e)) = st.q[k].first
              THEN [st.q[k] EXCEPT !.second = PushBack(@, e)]
              ELSE st.q[k]]]

\* a fresh loop without the isAlive test
RECURSIVE FinalizeFromMut(_, _, _)
FinalizeFromMut(k, end, st) ==
    IF k > end THEN [k |-> 0, added |-> st.added, ent |-> st.ent, q |-> st.q]
    ELSE IF HasScript(m_freshEntities[k])
    THEN [k |-> k, added |-> st.added, ent |-> st.ent, q |-> st.q]
    ELSE FinalizeFromMut(k + 1, end, Promote(st, m_freshEntities[k]))

\* the fresh loop (lines 354-371) from position k to its cached end, run up
\* to the next begin hook it invokes: k is that entity's position, 0 when the
\* loop is over
RECURSIVE FinalizeFrom(_, _, _)
FinalizeFrom(k, end, st) ==
    IF k > end THEN [k |-> 0, added |-> st.added, ent |-> st.ent, q |-> st.q]
    ELSE IF ~IsAlive(m_freshEntities[k]) THEN FinalizeFrom(k + 1, end, st)
    ELSE IF HasScript(m_freshEntities[k])
    THEN [k |-> k, added |-> st.added, ent |-> st.ent, q |-> st.q]
    ELSE FinalizeFrom(k + 1, end, Promote(st, m_freshEntities[k]))

\* m_freshEntities.resize(0) (line 372)
FreshAfterFinalize(end) == <<>>

\* the first position >= k of v whose entity has a script, 0 when none has
FirstScripted(v, k) ==
    IF \E n \in k..Len(v) : HasScript(v[n])
    THEN CHOOSE n \in k..Len(v) :
            HasScript(v[n]) /\ \A m \in k..(n - 1) : ~HasScript(v[m])
    ELSE 0

\* lines 380-382 from position k: the next hook to tick, or the end of tick()
ScriptsFrom(v, k) ==
    IF FirstScripted(v, k) = 0
    THEN [pc |-> "idle", i |-> 0, j |-> 0]
    ELSE [pc |-> "scriptTick", i |-> FirstScripted(v, k), j |-> 1]

\* a systems loop that stops one short of the last system
SystemsFromMut(v, k) ==
    IF k < Len(m_systems)
    THEN [pc |-> "sysTick", i |-> k, j |-> 0]
    ELSE ScriptsFrom(v, 1)

\* lines 376-377 from position k: the next system to tick, or the script loop
SystemsFrom(v, k) ==
    IF k <= Len(m_systems)
    THEN [pc |-> "sysTick", i |-> k, j |-> 0]
    ELSE ScriptsFrom(v, 1)

\* what the hook entered at t observes; v is the master list
ObsEnter(o, t, v) ==
    CASE t.pc = "sysTick" -> [o EXCEPT !.sysTicked = Append(@, m_systems[t.i])]
      [] t.pc = "scriptTick" ->
            [o EXCEPT !.ticked[v[t.i]] = @ + 1,
                      !.tickedDead = @ \/ ~IsAlive(v[t.i])]
      [] OTHER -> [o EXCEPT !.ranTick = TRUE]

Enter(o, t, v) ==
    /\ pc' = t.pc
    /\ loop' = [i |-> t.i, j |-> t.j, end |-> 0]
    /\ obs' = ObsEnter(o, t, v)

\* the fresh loop has run up to st: enter the begin hook it stopped at, or
\* leave the loop and go on with the systems
AfterFinalizeStep(st, end, o) ==
    /\ m_entities' = st.ent
    /\ m_queries' = st.q
    /\ ents' = [e \in Ids |-> IF e \in st.added
                                THEN [ents[e] EXCEPT !.componentsAdded = TRUE]
                                ELSE ents[e]]
    /\ IF st.k # 0
       THEN /\ pc' = "begin"
            /\ loop' = [i |-> st.k, j |-> 1, end |-> end]
            /\ obs' = [o EXCEPT !.begun[m_freshEntities[st.k]] = @ + 1]
            /\ UNCHANGED m_freshEntities
       ELSE /\ m_freshEntities' = FreshAfterFinalize(end)
            /\ Enter(o, SystemsFrom(st.ent, 1), st.ent)

\* tick(dt): assert, clear the transient cache, compact, then the fresh loop
Tick ==
    /\ NotHalted
    /\ pc = "idle"
    /\ IF m_state # "Running"
       THEN Halt("tick")
       ELSE LET r == RemoveDead3(m_entities, {}, FALSE)
                st == FinalizeFrom(1, Len(m_freshEntities),
                                   [added |-> {}, ent |-> r.v, q |-> CompactQueries(r)])
                o == [obs EXCEPT !.ticked = [e \in Ids |-> 0],
                                 !.tickedDead = FALSE,
                                 !.sysTicked = <<>>,
                                 !.deadAtStart = {e \in Ids : ~IsAlive(e)},
                                 !.pendingAtStart = Elems(m_freshEntities),
                                 !.ranTick = FALSE,
                                 !.scanned = <<>>]
            IN  /\ m_tempCachedQueries' = <<>>
                /\ AfterFinalizeStep(st, Len(m_freshEntities), o)
                /\ UNCHANGED <<m_state, m_systems, m_curID, halted, fe, cv, par>>

\* a begin hook of runStartupScript returns: the entity's next hook, or the
\* entity is promoted and the fresh loop goes on
BeginReturn ==
    /\ NotHalted
    /\ pc = "begin"
    /\ IF loop.j < ents[m_freshEntities[loop.i]].scripts
       THEN /\ loop' = [loop EXCEPT !.j = @ + 1]
            /\ obs' = [obs EXCEPT !.begun[m_freshEntities[loop.i]] = @ + 1]
            /\ UNCHANGED <<pc, m_entities, m_queries, ents, m_freshEntities>>
       ELSE AfterFinalizeStep(
                FinalizeFrom(loop.i + 1, loop.end,
                             Promote([added |-> {}, ent |-> m_entities, q |-> m_queries],
                                     m_freshEntities[loop.i])),
                loop.end, obs)
    /\ UNCHANGED <<m_state, m_systems, m_tempCachedQueries, m_curID, halted, fe,
                   cv, par>>

\* The fresh loop's cached end iterator is invalidated by a push_back a begin
\* hook made (addEntity during the loop): a checked-iterator build aborts at
\* the next comparison, any other build goes on to the old end (BeginReturn).
BeginReturnAbort ==
    /\ NotHalted
    /\ pc = "begin"
    /\ Len(m_freshEntities) > loop.end
    /\ Halt("iterator")

\* a system's tick hook returns
SysTickReturn ==
    /\ NotHalted
    /\ pc = "sysTick"
    /\ Enter(obs, SystemsFrom(m_entities, loop.i + 1), m_entities)
    /\ UNCHANGED <<m_state, m_systems, m_queries, m_entities, m_freshEntities,
                   m_tempCachedQueries, m_curID, ents, halted, fe, cv, par>>

\* a hook's tick of runScript returns: the entity's next hook, the next
\* entity with a script, or the end of tick()
ScriptTickReturn ==
    /\ NotHalted
    /\ pc = "scriptTick"
    /\ IF loop.j < ents[m_entities[loop.i]].scripts
       THEN Enter(obs, [pc |-> "scriptTick", i |-> loop.i, j |-> loop.j + 1], m_entities)
       ELSE Enter(obs, ScriptsFrom(m_entities, loop.i + 1), m_entities)
    /\ UNCHANGED <<m_state, m_systems, m_queries, m_entities, m_freshEntities,
                   m_tempCachedQueries, m_curID, ents, halted, fe, cv, par>>

\* ------------------------------------------------------------ specification
Next ==
    \/ \E e \in Ids : Kill(e)
    \/ \E e \in Ids, c \in Components : AddComponent(e, c)
    \/ \E e \in Ids : AddScript(e)
    \/ \E key \in Masks : AddQuery(key)
    \/ AddSystem
    \/ AddEntity
    \/ \E key \in Masks : CanQuery(key) /\ GetEntsWith(key)
    \/ \E key \in Masks : CanQuery(key) /\ ForEach(key)
    \/ \E key \in Masks : CanQuery(key) /\ ForEachParallel(key)
    \/ ForEachReturn
    \/ Start
    \/ InitQueriesReturn
    \/ SysBeginReturn
    \/ Tick
    \/ BeginReturn
    \/ BeginReturnAbort
    \/ SysTickReturn
    \/ ScriptTickReturn

Spec == Init /\ [][Next]_vars

\* ------------------------------------------- removeDeadEntities on any list
\* Every list of at most MaxLen entities drawn from NumCompactEnts finalized
\* entities, with every pattern of alive flags; entity i's flags and hooks
\* follow from i.
CompactIds == 0..(NumCompactEnts - 1)
CompactFlags(i) == {c \in Components : ((i + 1) \div (2 ^ c)) % 2 = 1}
ListsUpTo(n) == UNION {[1..k -> CompactIds] : k \in 0..n}

InitCompact ==
    /\ m_state = "Running"
    /\ m_systems = <<>>
    /\ m_queries = <<>>
    /\ m_entities \in ListsUpTo(MaxLen)
    /\ m_freshEntities = <<>>
    /\ m_tempCachedQueries = <<>>
    /\ m_curID = NumCompactEnts
    /\ \E a \in [CompactIds -> BOOLEAN] :
          ents = [i \in CompactIds |->
                     [alive |-> a[i], componentsAdded |-> TRUE,
                      flags |-> CompactFlags(i), scripts |-> i % 2]]
    /\ halted = "no"
    /\ pc = "compact"
    /\ loop = NoLoop
    /\ fe = NoFe
    /\ obs = NoObs
    /\ cv = [NoCv EXCEPT !.phase = "in"]
    /\ par = NoPar

\* removeDeadEntities(m_entities, rflag, rscript) as tick() calls it (line 338)
CompactMaster ==
    /\ cv.phase = "in"
    /\ LET r == RemoveDead3(m_entities, {}, FALSE)
       IN  /\ m_entities' = r.v
           /\ cv' = [phase |-> "out", overload |-> 3, in |-> m_entities,
                     ret |-> r.ret, rflag |-> r.rflag, rscript |-> r.rscript]
    /\ UNCHANGED <<m_state, m_systems, m_queries, m_freshEntities,
                   m_tempCachedQueries, m_curID, ents, halted, pc, loop, fe, obs, par>>

\* removeDeadEntities(v) as tick() calls it on a query's list (line 346)
CompactQuery ==
    /\ cv.phase = "in"
    /\ m_entities' = RemoveDead1(m_entities)
    /\ cv' = [phase |-> "out", overload |-> 1, in |-> m_entities,
              ret |-> FALSE, rflag |-> {}, rscript |-> FALSE]
    /\ UNCHANGED <<m_state, m_systems, m_queries, m_freshEntities,
                   m_tempCachedQueries, m_curID, ents, halted, pc, loop, fe, obs, par>>

NextCompact == CompactMaster \/ CompactQuery

SpecCompact == InitCompact /\ [][NextCompact]_vars

\* ------------------------------------------ removeDeadEntities, step by step
\* The two overloads run statement by statement on m_entities, from the
\* inputs of InitCompact.  cv holds the call's locals: left, right (an
\* integer here; the size_t of the code has wrapped when it is negative), and
\* iters, the number of loop bodies run.  cv.phase is the statement the call
\* is at: "outer" the test of while (left <= right), "inner" the test of
\* while (right > left), "swap" the if (right > left) behind it.
StepCall(overload) ==
    /\ cv.phase = "in"
    /\ cv' = IF Len(m_entities) = 0
             THEN [phase |-> "out", overload |-> overload, in |-> m_entities,
                   ret |-> FALSE, rflag |-> {}, rscript |-> FALSE,
                   left |-> 0, right |-> 0, iters |-> 0]
             ELSE [phase |-> "outer", overload |-> overload, in |-> m_entities,
                   ret |-> FALSE, rflag |-> {}, rscript |-> FALSE,
                   left |-> 0, right |-> Len(m_entities) - 1, iters |-> 0]
    /\ UNCHANGED <<m_state, m_systems, m_queries, m_entities, m_freshEntities,
                   m_tempCachedQueries, m_curID, ents, halted, pc, loop, fe, obs, par>>

\* while (left <= right) { if (!v[left]->isAlive()) { rflag |= ...; rscript = ...
StepOuter ==
    /\ cv.phase = "outer"
    /\ cv' = IF ~(cv.left <= cv.right)
             THEN [cv EXCEPT !.phase = "out",
                             !.ret = (cv.overload = 3 /\ Len(cv.in) # Len(m_entities))]
             ELSE IF ~IsAlive(At(m_entities, cv.left))
             THEN [cv EXCEPT
                     !.phase = "inner",
                     !.iters = @ + 1,
                     !.rflag = IF cv.overload = 3
                               THEN @ \cup ents[At(m_entities, cv.left)].flags ELSE @,
                     !.rscript = IF cv.overload = 3
                                 THEN @ \/ HasScript(At(m_entities, cv.left)) ELSE @]
             ELSE [cv EXCEPT !.left = @ + 1, !.iters = @ + 1]
    /\ UNCHANGED <<m_state, m_systems, m_queries, m_entities, m_freshEntities,
                   m_tempCachedQueries, m_curID, ents, halted, pc, loop, fe, obs, par>>

\* an inner loop that also runs for right = left
InnerCondMut(left, right) == right >= left

\* while (right > left)
InnerCond(left, right) == right > left

\* while (right > left) { if (v[right]->isAlive()) break; right--; v.pop_back(); }
StepInner ==
    /\ cv.phase = "inner"
    /\ IF InnerCond(cv.left, cv.right) /\ ~IsAlive(At(m_entities, cv.right))
       THEN /\ cv' = [cv EXCEPT !.right = @ - 1, !.iters = @ + 1]
            /\ m_entities' = PopBack(m_entities)
       ELSE /\ cv' = [cv EXCEPT !.phase = "swap"]
            /\ UNCHANGED m_entities
    /\ UNCHANGED <<m_state, m_systems, m_queries, m_freshEntities,
                   m_tempCachedQueries, m_curID, ents, halted, pc, loop, fe, obs, par>>

\* if (right > left) { std::swap(v[left], v[right]); right--; } v.pop_back(); } left++;
StepSwap ==
    /\ cv.phase = "swap"
    /\ IF cv.right > cv.left
       THEN /\ m_entities' = PopBack(SwapAt(m_entities, cv.left, cv.right))
            /\ cv' = [cv EXCEPT !.phase = "outer", !.right = @ - 1, !.left = @ + 1]
       ELSE /\ m_entities' = PopBack(m_entities)
            /\ cv' = [cv EXCEPT !.phase = "outer", !.left = @ + 1]
    /\ UNCHANGED <<m_state, m_systems, m_queries, m_freshEntities,
                   m_tempCachedQueries, m_curID, ents, halted, pc, loop, fe, obs, par>>

NextSteps ==
    \/ \E overload \in {1, 3} : StepCall(overload)
    \/ StepOuter
    \/ StepInner
    \/ StepSwap

SpecSteps == InitCompact /\ [][NextSteps]_vars

\* ---------------------------------------------------------- forEachParallel
\* One call of forEachParallel (or forEach) over the transient list of all
\* n finalized entities.  Thread 0 is the calling thread, threads 1 ..
\* m_nThreads - 1 are the std::threads of lines 422-435.  A thread is "idle"
\* between two elements, in "func" inside the callback, and in "wait",
\* "locked", "read", "written" inside an addEntity the callback makes.
\* differences of two high_resolution_clock readings in nanoseconds (lines
\* 259, 410); the clock need not be steady, so a difference may be negative
Durations == {-1, 0, 1}
Overheads == {-1, 0, 4}
NoThread == -1

InitPar ==
    /\ m_state = "Running"
    /\ m_systems = <<>>
    /\ m_queries = <<>>
    /\ \E n \in 0..MaxParLen :
          /\ m_entities = [k \in 1..n |-> k - 1]
          /\ m_curID = n
          /\ ents = [e \in 0..(n - 1) |-> [NewEntity EXCEPT !.componentsAdded = TRUE]]
    /\ m_freshEntities = <<>>
    /\ m_tempCachedQueries = <<>>
    /\ halted = "no"
    /\ pc = "idle"
    /\ loop = NoLoop
    /\ fe = NoFe
    /\ obs = NoObs
    /\ cv = NoCv
    /\ \E t \in 1..MaxThreads, o \in Overheads :
          par = [phase |-> "ready", m_nThreads |-> t, m_timeTillThreadStarts |-> o,
                 path |-> "none", vec |-> <<>>, visits |-> <<>>,
                 th |-> [x \in {} |-> 0], mu |-> NoThread, created |-> <<>>,
                 calls |-> 0, duration |-> 0]

\* a thread of control over [at, end); from keeps where it started
Thread(at, end) == [from |-> at, at |-> at, end |-> end, st |-> "idle", id |-> 0]

\* a step rounded up
StepOfMut(n, threads) == ((n - 1) + threads - 1) \div threads

\* size_t step = (vec.size() - 1) / m_nThreads (line 413)
StepOf(n, threads) == (n - 1) \div threads

\* timeWithThreads < timeWithoutThreads (lines 414-417)
WorthSplitting(n, threads, duration, overhead) ==
    StepOf(n, threads) * duration + overhead < (n - 1) * duration

\* a slice start that forgets the ++it after the probe
SliceStartMut(k, step) == k * step

\* where slice k starts: the probe's ++it (line 407), then k times it += step
\* (line 434)
SliceStart(k, step) == 1 + k * step

\* forEachParallel(func) up to the first call of func (lines 394-405)
ParCall ==
    /\ par.phase = "ready"
    /\ m_tempCachedQueries' = EntsWith({}).temp
    /\ LET vec == EntsWith({}).list
           n == Len(vec)
           p == [par EXCEPT !.vec = vec, !.visits = [k \in 1..n |-> 0]]
       IN  par' =
             IF n = 0 THEN [p EXCEPT !.phase = "done", !.path = "empty"]
             ELSE IF n > par.m_nThreads * 4
             THEN [p EXCEPT !.phase = "probe", !.th = [x \in {0} |-> Thread(0, 1)]]
             ELSE [p EXCEPT !.phase = "serial", !.path = "small",
                            !.th = [x \in {0} |-> Thread(0, n)]]
    /\ UNCHANGED <<m_state, m_systems, m_queries, m_entities, m_freshEntities,
                   m_curID, ents, halted, pc, loop, fe, obs, cv>>

\* forEach(func) up to the first call of func (lines 387-388)
ParCallForEach ==
    /\ par.phase = "ready"
    /\ m_tempCachedQueries' = EntsWith({}).temp
    /\ LET vec == EntsWith({}).list
           n == Len(vec)
       IN  par' = [par EXCEPT !.vec = vec, !.visits = [k \in 1..n |-> 0],
                              !.phase = "serial", !.path = "forEach",
                              !.th = [x \in {0} |-> Thread(0, n)]]
    /\ UNCHANGED <<m_state, m_systems, m_queries, m_entities, m_freshEntities,
                   m_curID, ents, halted, pc, loop, fe, obs, cv>>

ParFrame ==
    UNCHANGED <<m_state, m_systems, m_queries, m_entities, m_tempCachedQueries,
                halted, pc, loop, fe, obs, cv>>

Threads == DOMAIN par.th

\* func(*(*i)) is called on the element the thread's iterator is at
FuncEnter(t) ==
    /\ par.th[t].st = "idle"
    /\ par.th[t].at # par.th[t].end
    /\ par' = [par EXCEPT !.th[t].st = "func",
                          !.visits[par.th[t].at + 1] = @ + 1]
    /\ ParFrame /\ UNCHANGED <<m_freshEntities, m_curID, ents>>

\* func returns; ++i
FuncReturn(t) ==
    /\ par.th[t].st = "func"
    /\ par' = [par EXCEPT !.th[t].st = "idle", !.th[t].at = @ + 1]
    /\ ParFrame /\ UNCHANGED <<m_freshEntities, m_curID, ents>>

\* the callback calls addEntity(): the assert passes, make_shared, and the
\* thread arrives at the lock_guard (lines 291-294)
ParAddEntity(t) ==
    /\ par.th[t].st = "func"
    /\ par.calls < MaxParCreates
    /\ par' = [par EXCEPT !.th[t].st = "wait", !.calls = @ + 1]
    /\ ParFrame /\ UNCHANGED <<m_freshEntities, m_curID, ents>>

\* a mutex that never blocks
MutexFreeMut == TRUE

\* std::lock_guard<std::mutex> g(m_muEntityAdd) can take the mutex
MutexFree == par.mu = NoThread

ParLock(t) ==
    /\ par.th[t].st = "wait"
    /\ MutexFree
    /\ par' = [par EXCEPT !.th[t].st = "locked", !.mu = t]
    /\ ParFrame /\ UNCHANGED <<m_freshEntities, m_curID, ents>>

\* e->m_id = m_curID++ (line 296): the read of m_curID ...
ParReadId(t) ==
    /\ par.th[t].st = "locked"
    /\ par' = [par EXCEPT !.th[t].st = "read", !.th[t].id = m_curID]
    /\ ParFrame /\ UNCHANGED <<m_freshEntities, m_curID, ents>>

\* ... and the write of the incremented value and of e->m_id
ParWriteId(t) ==
    /\ par.th[t].st = "read"
    /\ m_curID' = par.th[t].id + 1
    /\ ents' = [e \in (DOMAIN ents) \cup {par.th[t].id} |->
                   IF e \in DOMAIN ents THEN ents[e] ELSE NewEntity]
    /\ par' = [par EXCEPT !.th[t].st = "written",
                          !.created = Append(@, [id |-> par.th[t].id, by |-> t])]
    /\ ParFrame /\ UNCHANGED m_freshEntities

\* m_freshEntities.push_back(e) (line 298); the lock_guard is released at the
\* return (line 302) and the callback goes on
ParPush(t) ==
    /\ par.th[t].st = "written"
    /\ m_freshEntities' = PushBack(m_freshEntities, par.th[t].id)
    /\ par' = [par EXCEPT !.th[t].st = "func", !.mu = NoThread]
    /\ ParFrame /\ UNCHANGED <<m_curID, ents>>

\* the probe's func has returned: the duration is measured and the path
\* chosen (lines 408-417); on the parallel path the threads are started with
\* their slices (lines 420-435) and the calling thread takes the rest
ProbeDone(duration) ==
    /\ par.phase = "probe"
    /\ par.th[0].st = "idle"
    /\ par.th[0].at = par.th[0].end
    /\ LET n == Len(par.vec)
           threads == par.m_nThreads
           step == StepOf(n, threads)
       IN  par' =
             IF WorthSplitting(n, threads, duration, par.m_timeTillThreadStarts)
             THEN [par EXCEPT
                     !.phase = "parallel", !.path = "parallel",
                     !.duration = duration,
                     !.th = [x \in 0..(threads - 1) |->
                               IF x = 0
                               THEN Thread(SliceStart(threads - 1, step), n)
                               ELSE Thread(SliceStart(x - 1, step),
                                           SliceStart(x - 1, step) + step)]]
             ELSE [par EXCEPT !.phase = "serial", !.path = "probeSerial",
                              !.duration = duration,
                              !.th = [x \in {0} |-> Thread(SliceStart(0, step), n)]]
    /\ ParFrame /\ UNCHANGED <<m_freshEntities, m_curID, ents>>

ThreadDone(t) == par.th[t].st = "idle" /\ par.th[t].at = par.th[t].end

\* a return without the joins
ParReturnMut ==
    /\ par.phase \in {"serial", "parallel"}
    /\ ThreadDone(0)
    /\ par' = [par EXCEPT !.phase = "done"]
    /\ ParFrame /\ UNCHANGED <<m_freshEntities, m_curID, ents>>

\* the serial loop is over (line 450), or every thread has been joined after
\* the calling thread's slice (lines 443-445): the call returns
ParReturn ==
    /\ par.phase \in {"serial", "parallel"}
    /\ \A t \in Threads : ThreadDone(t)
    /\ par' = [par EXCEPT !.phase = "done"]
    /\ ParFrame /\ UNCHANGED <<m_freshEntities, m_curID, ents>>

NextPar ==
    \/ ParCall
    \/ ParCallForEach
    \/ \E d \in Durations : ProbeDone(d)
    \/ ParReturn
    \/ \E t \in Threads : FuncEnter(t)
    \/ \E t \in Threads : FuncReturn(t)
    \/ \E t \in Threads : ParAddEntity(t)
    \/ \E t \in Threads : ParLock(t)
    \/ \E t \in Threads : ParReadId(t)
    \/ \E t \in Threads : ParWriteId(t)
    \/ \E t \in Threads : ParPush(t)

SpecPar == InitPar /\ [][NextPar]_vars

\* ------------------------------------------------------------------ queries
\* A running manager without systems and hooks: up to MaxEntities finalized
\* entities with any components, some killed since the last tick, and no or
\* one persistent query.  The application creates, kills, queries and ticks.
InitCache ==
    /\ m_state = "Running"
    /\ m_systems = <<>>
    /\ \E n \in 0..MaxEntities :
          /\ m_entities = [k \in 1..n |-> k - 1]
          /\ m_curID = n
          /\ \E a \in [0..(n - 1) -> BOOLEAN], f \in [0..(n - 1) -> Masks] :
                /\ ents = [e \in 0..(n - 1) |->
                             [alive |-> a[e], componentsAdded |-> TRUE,
                              flags |-> f[e], scripts |-> 0]]
                /\ \/ m_queries = <<>>
                   \/ \E key \in Masks :
                         m_queries =
                           <<[first |-> key,
                              second |-> SelectSeq([k \in 1..n |-> k - 1],
                                                   LAMBDA e : (key \cap f[e]) = key)]>>
    /\ m_freshEntities = <<>>
    /\ m_tempCachedQueries = <<>>
    /\ halted = "no"
    /\ pc = "idle"
    /\ loop = NoLoop
    /\ fe = NoFe
    /\ obs = [NoObs EXCEPT !.begun = [e \in Ids |-> 0], !.ticked = [e \in Ids |-> 0]]
    /\ cv = NoCv
    /\ par = NoPar

NextCache ==
    \/ \E key \in Masks : Len(m_tempCachedQueries) < MaxCached /\ GetEntsWith(key)
    \/ \E e \in Ids : Kill(e)
    \/ \E e \in Ids, c \in Components : AddComponent(e, c)
    \/ AddEntity
    \/ Tick

SpecCache == InitCache /\ [][NextCache]_vars

\* ------------------------------------------------------------------ claims
\* C2: after either overload of removeDeadEntities the list holds every
\* entity that was alive in the input exactly as often as the input did and no
\* dead entity; an all-alive input is left as it was; the three-argument
\* overload returns true exactly when an entity was removed.
C2_CompactionKeepsExactlyTheAlive ==
    cv.phase = "out" =>
        /\ \A e \in CompactIds :
              Occurrences(m_entities, e) =
                  IF IsAlive(e) THEN Occurrences(cv.in, e) ELSE 0
        /\ (\A k \in 1..Len(cv.in) : IsAlive(cv.in[k])) => m_entities = cv.in
        /\ cv.overload = 3 =>
              /\ cv.ret <=> (\E k \in 1..Len(cv.in) : ~IsAlive(cv.in[k]))
              /\ cv.ret <=> Len(m_entities) < Len(cv.in)

\* a dead entity at the left was swapped with an alive one from the right, and
\* a dead one was dropped from the right end
C2_Witness ==
    /\ cv.phase = "out"
    /\ cv.overload = 3
    /\ Len(cv.in) = MaxLen
    /\ ~IsAlive(cv.in[1])
    /\ ~IsAlive(cv.in[MaxLen])
    /\ \E k \in 2..(MaxLen - 1) : IsAlive(cv.in[k])
    /\ cv.ret
    /\ Len(m_entities) > 0

\* the hook the tick-driving thread is in, seen through a forEach it started
Ctx == IF fe.on THEN fe.ret ELSE pc
TickDone == pc = "idle" /\ obs.ranTick
QueryKeys == [k \in 1..Len(m_queries) |-> m_queries[k].first]

\* C1: after a completed tick(), an entity is in a persistent query's list
\* exactly when it is finalized, was alive when the tick's compaction ran, and
\* its flags hold the query's key.
C1_PersistentQueryExact ==
    TickDone =>
        \A k \in 1..Len(m_queries) : \A e \in Ids :
            (e \in Elems(m_queries[k].second))
                <=> /\ ents[e].componentsAdded
                    /\ e \notin obs.deadAtStart
                    /\ MatchesKey(m_queries[k].first, e)

\* C4: inside a tick the transient cache is cleared and the master list
\* compacted before the fresh loop, the fresh loop is over before the first
\* system ticks, and every system has ticked once, in registration order,
\* before the first behaviour hook ticks.
CompactionDone ==
    /\ Elems(m_entities) \cap obs.deadAtStart = {}
    /\ \A t \in 1..Len(m_tempCachedQueries) :
          Elems(m_tempCachedQueries[t]) \cap obs.deadAtStart = {}
PromotionDone ==
    \A e \in obs.pendingAtStart :
        /\ e \notin Elems(m_freshEntities)
        /\ ents[e].componentsAdded <=> e \in Elems(m_entities)
NoneTicked == \A e \in Ids : obs.ticked[e] = 0

C5_HooksTickOnlyAliveEntities ==
    /\ NotHalted => ~obs.tickedDead
    /\ TickDone =>
          \A e \in Elems(m_entities) : IsAlive(e) => obs.ticked[e] = ents[e].scripts

\* C6: an entity that is not finalized is in no master list, no persistent
\* query list, no transient result and no list being iterated, and none of
\* its hooks has been ticked.
C6_FreshEntitiesInvisible ==
    NotHalted =>
        \A e \in Ids : ~ents[e].componentsAdded =>
            /\ e \notin Elems(m_entities)
            /\ \A k \in 1..Len(m_queries) : e \notin Elems(m_queries[k].second)
            /\ \A t \in 1..Len(m_tempCachedQueries) :
                  e \notin Elems(m_tempCachedQueries[t])
            /\ e \notin Elems(fe.list)
            /\ obs.ticked[e] = 0

\* a forEach callback started by a system's tick hook runs while a pending
\* entity carries the flags of the entities being iterated
C6_Witness ==
    /\ pc = "forEachCb"
    /\ fe.ret = "sysTick"
    /\ Len(m_tempCachedQueries) > 0
    /\ \E e \in Elems(m_freshEntities) :
          /\ IsAlive(e)
          /\ ents[e].scripts > 0
          /\ ents[e].flags = ents[fe.list[fe.i]].flags
          /\ ents[e].flags # {}

\* C7: an alive entity that is not finalized is still pending; a finalized
\* entity has had each begin hook fired once; after a tick every entity that
\* was pending when the tick started and is alive is finalized, in the master
\* list and in every persistent query whose key its flags hold.
C7_PendingUntilFinalized ==
    NotHalted =>
        /\ \A e \in Ids :
              /\ (IsAlive(e) /\ ~ents[e].componentsAdded) => e \in Elems(m_freshEntities)
              /\ ents[e].componentsAdded => obs.begun[e] = ents[e].scripts
        /\ TickDone =>
              \A e \in obs.pendingAtStart : IsAlive(e) =>
                  /\ ents[e].componentsAdded
                  /\ e \in Elems(m_entities)
                  /\ \A k \in 1..Len(m_queries) :
                        MatchesKey(m_queries[k].first, e)
                            => e \in Elems(m_queries[k].second)

\* C8: m_state starts Init, becomes Running only in start() and stays so; in
\* Init no entity, tick, query result or iteration exists and only those
\* calls halt; in Running m_systems and the declared keys are frozen and only
\* addQuery, addSystem and start halt; a halting call leaves the manager's
\* lists, entities and state as they were.
C8_StateAccepts ==
    /\ m_state \in {"Init", "Running"}
    /\ m_state = "Init" =>
          /\ m_curID = 0 /\ m_entities = <<>> /\ m_freshEntities = <<>>
          /\ m_tempCachedQueries = <<>> /\ ~obs.ranTick /\ ~fe.on
    /\ halted \in {"addEntity", "tick", "getEntsWith", "forEach", "forEachParallel"}
          => m_state = "Init"
    /\ halted \in {"addQuery", "addSystem", "start"} => m_state = "Running"

C8_ManagerStateMachine ==
    [][ /\ C8_StateAccepts'
        /\ m_state = "Running" =>
              m_state' = "Running" /\ m_systems' = m_systems /\ QueryKeys' = QueryKeys
        /\ m_state' # m_state =>
              /\ m_state = "Init" /\ m_state' = "Running"
              /\ pc \in {"idle", "initQueries"} /\ pc' \in {"idle", "sysBegin"}
        /\ halted' # "no" =>
              /\ Lists' = Lists /\ m_state' = m_state
              /\ ents' = ents /\ m_curID' = m_curID
      ]_vars

\* addQuery is rejected in the running state, with entities in the master list
C8_Witness ==
    /\ halted = "addQuery"
    /\ m_state = "Running"
    /\ Len(m_entities) > 0
    /\ Len(m_queries) > 0

C3_EveryElementVisitedOnce ==
    /\ \A k \in DOMAIN par.visits : par.visits[k] <= 1
    /\ par.phase = "done" =>
          /\ DOMAIN par.visits = 1..Len(m_entities)
          /\ \A k \in DOMAIN par.visits : par.visits[k] = 1

\* the parallel path has returned, with a slice length that does not divide
\* the remaining elements
C3_Witness ==
    /\ par.phase = "done"
    /\ par.path = "parallel"
    /\ par.m_nThreads > 1
    /\ (Len(par.vec) - 1) % par.m_nThreads # 0

\* C10: the ids handed out are strictly increasing in creation order (so no
\* two entities share one), also when the callers are concurrent slices; every
\* created entity is pushed onto the fresh queue once, and when the call has
\* returned the queue holds exactly the created entities and m_curID has
\* advanced by their number.
C10_IdsUniqueUnderConcurrency ==
    /\ \A i, j \in 1..Len(par.created) :
          i < j => par.created[i].id < par.created[j].id
    /\ \A k \in 1..Len(m_freshEntities) :
          /\ Occurrences(m_freshEntities, m_freshEntities[k]) = 1
          /\ \E i \in 1..Len(par.created) : par.created[i].id = m_freshEntities[k]
    /\ par.phase = "done" =>
          /\ Len(m_freshEntities) = par.calls
          /\ m_freshEntities = [i \in 1..Len(par.created) |-> par.created[i].id]
          /\ m_curID = Len(m_entities) + par.calls

\* two concurrent slices have each created an entity
C10_Witness ==
    /\ par.phase = "done"
    /\ par.path = "parallel"
    /\ \E i, j \in 1..Len(par.created) :
          par.created[i].by # par.created[j].by

\* C11: a request for a mask with no persistent entry scans the master list
\* and caches the result when it is the first for that mask in the tick, and
\* leaves the transient cache as it is when the mask has been requested
\* before in the tick; tick() empties the transient cache.
C11_TransientCachedOncePerTick ==
    [][/\ \A key \in Masks :
             (GetEntsWith(key) /\ m_state = "Running" /\ ~HasQuery(key)) =>
                IF key \in Elems(obs.scanned)
                THEN m_tempCachedQueries' = m_tempCachedQueries
                ELSE m_tempCachedQueries' =
                        PushBack(m_tempCachedQueries, ScanMaster(key))
       /\ (Tick /\ m_state = "Running") => m_tempCachedQueries' = <<>>]_vars

\* C12: the list a scan for a mask with no persistent entry returns holds
\* exactly the master-list entities that are alive when the scan runs and
\* whose flags hold the mask.
C12_TransientResultAliveMatching ==
    [][\A key \in Masks :
          (GetEntsWith(key) /\ m_state = "Running" /\ ~HasQuery(key)) =>
             Elems(m_tempCachedQueries'[Len(m_tempCachedQueries')]) =
                {e \in Elems(m_entities) : IsAlive(e) /\ MatchesKey(key, e)}]_vars

\* C13: a step that makes an entity dead changes nothing but alive flags: the
\* lists, m_curID and every entity's flags, hooks and finalization mark stay;
\* a dead entity is never alive again (a repeated kill changes nothing); a
\* dead entity in the master list stays there in every step but the
\* compaction of tick(), and is not there after that step.
C13_KillOnlyClearsAlive ==
    [][/\ (\E e \in Ids : IsAlive(e) /\ ~ents'[e].alive) =>
             /\ Lists' = Lists
             /\ m_curID' = m_curID
             /\ \A x \in Ids : [ents'[x] EXCEPT !.alive = ents[x].alive] = ents[x]
       /\ \A e \in Ids : ~IsAlive(e) => ~ents'[e].alive
       /\ \A e \in Elems(m_entities) :
             ~IsAlive(e) =>
                IF Tick /\ m_state = "Running"
                THEN e \notin Elems(m_entities')
                ELSE e \in Elems(m_entities')]_vars

\* a finalized entity has been killed and a later tick has taken it out of
\* the master list
C13_Witness ==
    /\ NotHalted
    /\ \E e \in Ids :
          /\ ~IsAlive(e)
          /\ ents[e].componentsAdded
          /\ e \notin Elems(m_entities)

\* the entities in the master list or in a persistent or transient query list
Listed ==
    Elems(m_entities)
      \cup UNION {Elems(m_queries[k].second) : k \in 1..Len(m_queries)}
      \cup UNION {Elems(m_tempCachedQueries[k]) : k \in 1..Len(m_tempCachedQueries)}

\* C14: every listed entity is finalized, and no step changes the flags or the
\* hooks of a finalized entity; addComponent and addScript on a finalized
\* entity halt, and on an entity not yet finalized they succeed, addComponent
\* adding exactly the bit of its type and addScript one hook.
C14_FinalizedEntityIsFrozen ==
    [][/\ \A e \in Listed : ents[e].componentsAdded
       /\ \A e \in Ids :
             ents[e].componentsAdded =>
                /\ ents'[e].flags = ents[e].flags
                /\ ents'[e].scripts = ents[e].scripts
                /\ ents'[e].componentsAdded
                /\ \A c \in Components : AddComponent(e, c) => halted' = "addComponent"
                /\ AddScript(e) => halted' = "addScript"
       /\ \A e \in Ids :
             ~ents[e].componentsAdded =>
                /\ \A c \in Components :
                      AddComponent(e, c) =>
                         /\ halted' = "no"
                         /\ ents' = [ents EXCEPT ![e].flags = @ \cup {c}]
                /\ AddScript(e) =>
                      /\ halted' = "no"
                      /\ ents' = [ents EXCEPT ![e].scripts = @ + 1]]_vars

\* addComponent on a finalized entity has halted; the entity got a component
\* before it was finalized
C14_Witness ==
    /\ halted = "addComponent"
    /\ \E e \in Elems(m_entities) : ents[e].componentsAdded /\ ents[e].flags # {}

\* the hooks tick() runs after its compaction and finalization phases
InTickHooks ==
    \/ pc \in {"sysTick", "scriptTick"}
    \/ pc = "forEachCb" /\ fe.ret \in {"sysTick", "scriptTick"}

\* C15: a tick() called when no entity of the master list is dead and the
\* fresh queue is empty leaves the master list and every persistent query as
\* they are, and so does every step of the hooks the tick then runs (also one
\* that kills or creates).
C15_TickWithNothingToDoKeepsLists ==
    [][/\ (/\ Tick
           /\ m_state = "Running"
           /\ \A e \in Elems(m_entities) : IsAlive(e)
           /\ m_freshEntities = <<>>)
          => m_entities' = m_entities /\ m_queries' = m_queries
       /\ InTickHooks => m_entities' = m_entities /\ m_queries' = m_queries]_vars

\* the hooks of a tick run that found no dead and no pending entity, with
\* two entities in the master list and one in a persistent query
C15_Witness ==
    /\ pc = "scriptTick"
    /\ obs.deadAtStart = {}
    /\ obs.pendingAtStart = {}
    /\ Len(m_entities) > 1
    /\ \E k \in 1..Len(m_queries) : Len(m_queries[k].second) > 0

\* C16: after removeDeadEntities(v, rflag, rscript), rflag is the union of the
\* flags of all entities removed from v (the dead ones of the input list) and
\* rscript says whether one of them has a hook.
C16_RemovedBitsCoverEveryRemoved ==
    (cv.phase = "out" /\ cv.overload = 3) =>
       LET removed == {e \in Elems(cv.in) : ~IsAlive(e)}
       IN  /\ cv.rflag = UNION {ents[e].flags : e \in removed}
           /\ cv.rscript = (\E e \in removed : HasScript(e))

\* a forEachParallel call over a non-empty list has chosen its path
Decided ==
    /\ par.phase \in {"serial", "parallel", "done"}
    /\ par.path \in {"small", "probeSerial", "parallel"}

\* the quotient a / b rounded up and rounded down, for a >= 0 and b > 0
CeilQuot(a, b) == CHOOSE s \in 0..a : s * b >= a /\ (s = 0 \/ (s - 1) * b < a)
FloorQuot(a, b) == CHOOSE s \in 0..a : s * b <= a /\ (s + 1) * b > a

\* the path rule of forEachParallel with slice length step
PathRule(step) ==
    LET n == Len(par.vec)
        threads == par.m_nThreads
        c == par.duration
    IN  /\ (par.path = "parallel") <=>
              /\ n > threads * 4
              /\ step * c + par.m_timeTillThreadStarts < (n - 1) * c
        /\ par.path = "parallel" =>
              par.phase = "done" \/ Cardinality(Threads) = threads
        /\ n <= threads * 4 =>
              /\ par.path = "small"
              /\ par.phase = "done" \/ (Threads = {0} /\ par.th[0].end = n)
        /\ (n > threads * 4 /\ par.path # "parallel") =>
              /\ par.path = "probeSerial"
              /\ par.phase = "done" \/
                    (Threads = {0} /\ par.th[0].at >= 1 /\ par.th[0].end = n)

Slice(t) == par.th[t].from .. (par.th[t].end - 1)

\* C18: on the parallel path there are m_nThreads slices, the workers' in
\* thread order and then the caller's; each starts where the one before ends,
\* the first behind the probed element, the last ends at the end of L and none
\* reaches past it, so every position behind the first is in exactly one
\* slice.  When the call has returned no thread is inside func or has an
\* element left.
C18_SlicesPartitionAndJoin ==
    par.path = "parallel" =>
       LET n == Len(par.vec)
           threads == par.m_nThreads
           order == [k \in 1..threads |-> IF k = threads THEN 0 ELSE k]
       IN  /\ Threads = 0..(threads - 1)
           /\ par.th[order[1]].from = 1
           /\ \A k \in 1..(threads - 1) :
                 par.th[order[k + 1]].from = par.th[order[k]].end
           /\ par.th[0].end = n
           /\ \A t \in Threads :
                 /\ par.th[t].from <= par.th[t].end
                 /\ par.th[t].end <= n
                 /\ par.th[t].at \in par.th[t].from .. par.th[t].end
           /\ \A i \in 1..(n - 1) : Cardinality({t \in Threads : i \in Slice(t)}) = 1
           /\ \A t, u \in Threads : t # u => Slice(t) \cap Slice(u) = {}
           /\ par.phase = "done" => \A t \in Threads : ThreadDone(t)

\* a call with two worker slices and the caller's has returned
C18_Witness ==
    /\ par.path = "parallel"
    /\ par.phase = "done"
    /\ par.m_nThreads = 3
    /\ \A t \in Threads : Slice(t) # {}

\* a statement of removeDeadEntities is about to run
InLoops == cv.phase \in {"outer", "inner", "swap"}

\* C19: in both overloads and for every input list, right never wraps, every
\* v[left] and v[right] about to be read or swapped is inside the list,
\* pop_back finds the list non-empty, at most as many loop bodies run as the
\* input list is long, and the call goes on until it returns; it returns what
\* the loops of RemoveDead1 and RemoveDead3 compute.
C19_CompactionStaysInBounds ==
    /\ InLoops =>
          /\ cv.right >= 0
          /\ cv.left >= 0
          /\ cv.iters <= Len(cv.in)
          /\ (cv.phase = "outer" /\ cv.left <= cv.right) => cv.left < Len(m_entities)
          /\ cv.phase \in {"inner", "swap"} =>
                /\ cv.left < Len(m_entities)
                /\ cv.right < Len(m_entities)
                /\ Len(m_entities) > 0
          /\ ENABLED NextSteps
    /\ (cv.phase = "out" /\ cv.overload = 1) => m_entities = RemoveDead1(cv.in)
    /\ (cv.phase = "out" /\ cv.overload = 3) =>
          LET r == RemoveDead3(cv.in, {}, FALSE)
          IN  m_entities = r.v /\ cv.ret = r.ret /\ cv.rflag = r.rflag
                /\ cv.rscript = r.rscript

\* a call on a list whose entities are all dead, with two at least, has
\* returned
C19_Witness ==
    /\ cv.phase = "out"
    /\ Len(cv.in) > 1
    /\ \A e \in Elems(cv.in) : ~IsAlive(e)
    /\ m_entities = <<>>

\* e has been killed while pending, before any of its begin hooks fired
KilledPending(e) ==
    ~IsAlive(e) /\ ~ents[e].componentsAdded /\ obs.begun[e] = 0

\* C20: an entity killed while pending stays so in every step: it is not
\* finalized, no begin hook of it fires, no hook of it is ticked, and it
\* enters no master, persistent or transient list; once the fresh loop of a
\* tick that found it dead and pending is over, the fresh queue does not hold
\* it either.
C20_KilledPendingNeverFinalized ==
    [][(NotHalted /\ halted' = "no") =>
          /\ \A e \in Ids :
                KilledPending(e) =>
                   /\ KilledPending(e)'
                   /\ obs'.ticked[e] = 0
                   /\ e \notin Listed'
          /\ (Ctx' \in {"sysTick", "scriptTick"} \/ TickDone') =>
                \A e \in obs'.pendingAtStart \cap obs'.deadAtStart :
                   /\ KilledPending(e)'
                   /\ e \notin Elems(m_freshEntities')
                   /\ e \notin Listed']_vars

\* a tick is over that found a killed entity with a hook in the fresh queue
\* and finalized another entity
C20_Witness ==
    /\ TickDone
    /\ \E e \in obs.pendingAtStart \cap obs.deadAtStart :
          ents[e].scripts > 0 /\ e \notin Elems(m_freshEntities)
    /\ \E e \in obs.pendingAtStart : ents[e].componentsAdded

=============================================================================
